---- MODULE Spec2Model ----
(***************************************************************************)
(* A chained hash table from uint64 keys to uint64 values                  *)
(* (src/buggy_hashtable/main.cpp): hashKey, Hashtable's constructor,       *)
(* destructor, lookup, insert and erase, and the acceptance run of main.   *)
(*                                                                         *)
(* Heap nodes are addresses 1..N, Null is 0.  The bucket array is the      *)
(* function ht over 0..htSize-1.  insert, erase and the destructor are     *)
(* split at the statements that change memory, with pc naming the          *)
(* statement that runs next; lookup and the search loop of erase are       *)
(* read-only and run as one step.                                          *)
(***************************************************************************)
EXTENDS Integers, Sequences, FiniteSets, TLC

\* ---- bounds of the model ------------------------------------------------
MaxKey == 2          \* the generic client uses the keys 0..MaxKey
MaxSize == 2         \* the generic client constructs with a size in 1..MaxSize
MaxNodes == 3        \* heap nodes available to the generic client

\* ---- program constants --------------------------------------------------
WordBytes == 8       \* sizeof(uint64_t)
WordBits == 8 * WordBytes
MainSize == 10       \* first size of main's size list
InsertValue == 42    \* value of main's insert phase
EraseStride == 3     \* stride of main's erase loops

Null == 0            \* nullptr
BadAlloc == "bad_alloc"

\* ---- uint64 arithmetic on little-endian byte sequences -------------------
RECURSIVE Pow2(_)
Pow2(n) == IF n = 0 THEN 1 ELSE 2 * Pow2(n - 1)

ByteBase == Pow2(8)

RECURSIVE ToU64From(_, _)
ToU64From(n, j) ==
    IF j > WordBytes THEN <<>>
    ELSE <<n % ByteBase>> \o ToU64From(n \div ByteBase, j + 1)

ToU64(n) == ToU64From(n, 1)

RECURSIVE ToNatFrom(_, _)
ToNatFrom(a, j) ==
    IF j > WordBytes THEN 0 ELSE a[j] + ByteBase * ToNatFrom(a, j + 1)

ToNat(a) == ToNatFrom(a, 1)

RECURSIVE XorBits(_, _, _)
XorBits(x, y, n) ==
    IF n = 0 THEN 0
    ELSE ((x + y) % 2) + 2 * XorBits(x \div 2, y \div 2, n - 1)

RECURSIVE AndBits(_, _, _)
AndBits(x, y, n) ==
    IF n = 0 THEN 0
    ELSE ((x % 2) * (y % 2)) + 2 * AndBits(x \div 2, y \div 2, n - 1)

Xor64(a, b) == [j \in 1..WordBytes |-> XorBits(a[j], b[j], 8)]

And64(a, b) == [j \in 1..WordBytes |-> AndBits(a[j], b[j], 8)]

ByteAt(a, j) == IF j \in 1..WordBytes THEN a[j] ELSE 0

Shr64(a, n) ==
    LET q == n \div 8
        s == n % 8
    IN [j \in 1..WordBytes |->
          ((ByteAt(a, j + q) \div Pow2(s))
           + ((ByteAt(a, j + q + 1) * Pow2(8 - s)) % ByteBase)) % ByteBase]

RECURSIVE ColSum(_, _, _, _)
ColSum(a, b, c, j) ==
    IF j > c THEN 0 ELSE a[j] * b[c - j + 1] + ColSum(a, b, c, j + 1)

RECURSIVE MulFrom(_, _, _, _)
MulFrom(a, b, c, carry) ==
    IF c > WordBytes THEN <<>>
    ELSE LET t == ColSum(a, b, c, 1) + carry
         IN <<t % ByteBase>> \o MulFrom(a, b, c + 1, t \div ByteBase)

Mul64(a, b) == MulFrom(a, b, 1, 0)

\* ---- hashKey (MurmurHash64A of one 8-byte key) ---------------------------
m == <<149, 233, 209, 91, 147, 167, 164, 198>>      \* 0xc6a4a7935bd1e995
seed == <<18, 73, 119, 78, 26, 214, 69, 132>>       \* 0x8445d61a4e774912
r == 47

hashKey(k) ==
    LET h0 == Xor64(seed, Mul64(ToU64(8), m))
        k1 == Mul64(ToU64(k), m)
        k2 == Xor64(k1, Shr64(k1, r))
        k3 == Mul64(k2, m)
        h1 == Xor64(h0, k3)
        h2 == Mul64(h1, m)
        h3 == Xor64(h2, Shr64(h2, r))
        h4 == Mul64(h3, m)
    IN Xor64(h4, Shr64(h4, r))

Keys == 0..MaxKey
MainKeys == 0..(MainSize - 1)
AllKeys == Keys \cup MainKeys

\* hashKey is pure: its digests are tabulated once for the keys in use
HashOf == [k \in AllKeys |-> hashKey(k)]

\* ---- the constructor's arithmetic ----------------------------------------
RECURSIVE BitLen(_)
BitLen(n) == IF n = 0 THEN 0 ELSE 1 + BitLen(n \div 2)

\* __builtin_clzl on a 64-bit word (undefined for 0)
clzl(n) == WordBits - BitLen(n)

\* (variant: a size that is a power of two is kept)
NextPow2Rounded(s) == Pow2(WordBits - clzl(s - 1))

\* 1ull << ((8*sizeof(uint64_t)) - __builtin_clzl(size)); the shift count
\* stays below 64 for every size below 2^63
NextPow2(s) == Pow2(WordBits - clzl(s))

\* hashKey(key) & mask, tabulated for the masks a constructor can set
Masks == {NextPow2(s) - 1 : s \in (1..MaxSize) \cup {MainSize}}

\* the hash functions a table is checked with: the program's hashKey, and
\* two stand-ins for it (the key itself; one digest for every key)
HashNames == {"hashKey", "identity", "one_bucket"}

Digest(h, k) ==
    CASE h = "hashKey" -> HashOf[k]
      [] h = "identity" -> ToU64(k)
      [] h = "one_bucket" -> ToU64(0)

IndexOf ==
    [h \in HashNames |->
       [k \in AllKeys |->
          [msk \in Masks |-> ToNat(And64(Digest(h, k), ToU64(msk)))]]]

\* ---- state ----------------------------------------------------------------
VARIABLES
    pc,         \* the statement that runs next
    size,       \* the size the table was constructed with
    htSize, mask, ht,
    htState,    \* "none", "mapped", "MAP_FAILED" or "unmapped"
    mapLen,     \* bytes asked of mmap
    unmapLen,   \* bytes handed to munmap
    heap,       \* node address -> [key, value, next]
    live,       \* addresses handed out by new and not yet deleted
    frame,      \* locals of the running member function
    op,         \* the running (or last) call
    ret,        \* the result of the call that has returned
    exc,        \* "none", or the exception the last call left by
    fault,      \* "none", or the undefined behaviour that stopped the run
    absMap,     \* history: the key -> value map the calls describe
    pre,        \* history: the table when the running call began
    prevErased, \* history: the key removed by the call before this one, if any
    phase, i,   \* main's position in its script
    hashFn,     \* the hash function the table is built with
    wide        \* the constructor's arithmetic on full 64-bit words

tableVars == <<size, htSize, mask, ht, htState, mapLen, unmapLen, heap, live>>
callVars == <<pc, frame, op, ret, exc, fault>>
histVars == <<absMap, pre, prevErased>>
mainVars == <<phase, i>>
envVars == <<hashFn, wide>>
vars == <<tableVars, callVars, histVars, mainVars, envVars>>

\* hashKey(key) & mask
Index(key, msk) == IndexOf[hashFn][key][msk]

Entry(k, v, n) == [key |-> k, value |-> v, next |-> n]

\* storage that holds no node (never handed out, or deleted): its content
\* is indeterminate and no statement of the model reads it (a read of a
\* released node halts)
Released == [key |-> 0 - 1, value |-> 0 - 1, next |-> Null]

\* no call is running
NoTable == [ht |-> <<>>, mask |-> 0, heap |-> <<>>, live |-> {}]

EmptyFrame ==
    [pos |-> 0, e |-> Null, newEntry |-> Null, prev |-> Null, lead |-> Null,
     next |-> Null, entry |-> Null]

NoOp == [name |-> "none", key |-> 0, value |-> 0]

\* what a caller learns of a key: absent, or present with a value
Absent == [found |-> FALSE, value |-> 0]

Present(v) == [found |-> TRUE, value |-> v]

\* the outcome of a chain walk: the node it ends at, or the undefined
\* behaviour it runs into ("use_after_free": it stepped onto a released
\* node; "endless_loop": it never reaches the end of its chain)
Found(e) == [status |-> "ok", node |-> e]

Broken(f) == [status |-> f, node |-> Null]

\* the table as the member functions see it
Table == [ht |-> ht, mask |-> mask, heap |-> heap, live |-> live]

Nodes == DOMAIN heap

\* ---- lookup ---------------------------------------------------------------
\* for (Entry* e = ...; e; e = e->next) if (e->key == key) return e;
\* (variant: only the head of the chain is compared)
WalkHeadOnly(t, e, key, fuel) ==
    IF e = Null THEN Found(Null)
    ELSE IF e \notin t.live THEN Broken("use_after_free")
    ELSE IF t.heap[e].key = key THEN Found(e)
    ELSE Found(Null)

\* (variant: the walk gives up behind the second entry of a chain)
WalkTwoDeep(t, e, key, fuel) ==
    IF e = Null THEN Found(Null)
    ELSE IF e \notin t.live THEN Broken("use_after_free")
    ELSE IF t.heap[e].key = key THEN Found(e)
    ELSE WalkHeadOnly(t, t.heap[e].next, key, fuel)

RECURSIVE Walk(_, _, _, _)
Walk(t, e, key, fuel) ==
    IF e = Null THEN Found(Null)
    ELSE IF e \notin t.live THEN Broken("use_after_free")
    ELSE IF t.heap[e].key = key THEN Found(e)
    ELSE IF fuel = 0 THEN Broken("endless_loop")
    ELSE Walk(t, t.heap[e].next, key, fuel - 1)

lookup(t, key) ==
    Walk(t, t.ht[Index(key, t.mask)], key, Cardinality(DOMAIN t.heap))

\* ---- outcomes shared by the member functions ------------------------------
\* the call returns res to its caller
Return(res) ==
    /\ pc' = "returned"
    /\ ret' = res
    /\ exc' = "none"
    /\ frame' = EmptyFrame
    /\ pre' = NoTable
    /\ absMap' = IF op.name = "insert"
                    THEN [absMap EXCEPT ![op.key] = Present(op.value)]
                 ELSE IF op.name = "erase"
                    THEN [absMap EXCEPT ![op.key] = Absent]
                 ELSE absMap

\* undefined behaviour f stops the run
Halt(f) ==
    /\ pc' = "halted"
    /\ fault' = f
    /\ UNCHANGED <<tableVars, frame, ret, exc, absMap>>

\* the same, in a statement inside a call
HaltInCall(f) == Halt(f) /\ UNCHANGED <<op, pre, prevErased>>

\* the caller has taken the result and may call again
Leave ==
    /\ pc = "returned"
    /\ pc' = "idle"
    /\ op' = [name |-> "none", key |-> 0, value |-> 0]
    /\ ret' = FALSE
    /\ exc' = "none"
    /\ prevErased' = IF op.name = "erase" /\ ret = TRUE THEN {op.key} ELSE {}
    /\ UNCHANGED <<tableVars, frame, fault, absMap, pre>>

\* the first statement of a call, which neither returns nor halts
Proceed == pre' = Table /\ UNCHANGED <<ret, exc>>

\* a call enters the table
Enter(name, k, v) ==
    /\ pc = "idle"
    /\ op' = [name |-> name, key |-> k, value |-> v]
    /\ UNCHANGED prevErased

\* ---- constructor ----------------------------------------------------------
\* allocZeros: mmap hands out a zero-filled mapping or MAP_FAILED
Construct(s) ==
    /\ pc = "start"
    /\ size' = s
    /\ htSize' = NextPow2(s)
    /\ mask' = NextPow2(s) - 1
    /\ mapLen' = WordBytes * NextPow2(s)
    /\ \/ /\ htState' = "mapped"
          /\ ht' = [b \in 0..(NextPow2(s) - 1) |-> Null]
       \/ /\ htState' = "MAP_FAILED"
          /\ ht' = <<>>
    /\ pc' = "idle"
    /\ UNCHANGED <<unmapLen, heap, live, frame, op, ret, exc, fault, histVars>>

\* (variant: a lookup that finds nothing empties the bucket it searched)
LookupClearsMiss(k) ==
    /\ Enter("lookup", k, 0)
    /\ htState = "mapped"
    /\ LET w == lookup(Table, k)
       IN /\ w.status = "ok"
          /\ ht' = IF w.node = Null THEN [ht EXCEPT ![Index(k, mask)] = Null]
                                    ELSE ht
          /\ Return(w.node)
          /\ UNCHANGED <<size, htSize, mask, htState, mapLen, unmapLen, heap,
                         live, fault>>

\* ---- lookup as a call -----------------------------------------------------
Lookup(k) ==
    /\ Enter("lookup", k, 0)
    /\ IF htState # "mapped"
          THEN Halt("bad_bucket_array") /\ UNCHANGED pre
          ELSE LET w == lookup(Table, k)
               IN IF w.status # "ok" THEN Halt(w.status) /\ UNCHANGED pre
                  ELSE /\ Return(w.node)
                       /\ UNCHANGED <<tableVars, fault>>

\* (variant: no lookup, every insert links a new entry)
InsertBeginNoLookup(k, v) ==
    /\ Enter("insert", k, v)
    /\ htState = "mapped"
    /\ Proceed
    /\ pc' = "insert_new"
    /\ frame' = [EmptyFrame EXCEPT !.pos = Index(k, mask)]
    /\ UNCHANGED <<tableVars, fault, absMap>>

\* ---- insert ---------------------------------------------------------------
\* Entry* e = lookup(key); if (e) ... else { pos = hashKey(key) & mask; ...
InsertBegin(k, v) ==
    /\ Enter("insert", k, v)
    /\ IF htState # "mapped"
          THEN Halt("bad_bucket_array") /\ UNCHANGED pre
          ELSE LET w == lookup(Table, k)
               IN IF w.status # "ok" THEN Halt(w.status) /\ UNCHANGED pre
                  ELSE /\ Proceed
                       /\ pc' = IF w.node # Null THEN "insert_update"
                                                 ELSE "insert_new"
                       /\ frame' = [EmptyFrame EXCEPT !.e = w.node,
                                                      !.pos = Index(k, mask)]
                       /\ UNCHANGED <<tableVars, fault, absMap>>

\* (variant: the value is not overwritten)
InsertUpdateNoWrite ==
    /\ pc = "insert_update"
    /\ Return(FALSE)
    /\ UNCHANGED <<tableVars, op, fault, prevErased>>

\* (variant: the matched entry also becomes the head of its bucket)
InsertUpdateToFront ==
    /\ pc = "insert_update"
    /\ heap' = [heap EXCEPT ![frame.e].value = op.value]
    /\ ht' = [ht EXCEPT ![frame.pos] = frame.e]
    /\ Return(FALSE)
    /\ UNCHANGED <<size, htSize, mask, htState, mapLen, unmapLen, live,
                   op, fault, prevErased>>

\* e->value = value; return false;
InsertUpdate ==
    /\ pc = "insert_update"
    /\ heap' = [heap EXCEPT ![frame.e].value = op.value]
    /\ Return(FALSE)
    /\ UNCHANGED <<size, htSize, mask, ht, htState, mapLen, unmapLen, live,
                   op, fault, prevErased>>

\* the address new hands out: a free one.  Addresses are only compared with
\* each other and with nullptr, so which free one is immaterial; the model
\* takes the lowest (none when the heap is exhausted)
NewChoices == LET free == Nodes \ live
              IN {a \in free : \A b \in free : a <= b}

\* (variant: the bucket is emptied before new is called)
InsertNewClearsFirst ==
    /\ pc = "insert_new"
    /\ ht' = [ht EXCEPT ![frame.pos] = Null]
    /\ \/ \E a \in NewChoices :
             /\ live' = live \cup {a}
             /\ heap' = [heap EXCEPT ![a] = Entry(0, 0, Null)]
             /\ frame' = [frame EXCEPT !.newEntry = a]
             /\ pc' = "insert_key"
             /\ UNCHANGED <<ret, exc, absMap, pre>>
       \/ /\ pc' = "returned"
          /\ exc' = BadAlloc
          /\ frame' = EmptyFrame
          /\ pre' = NoTable
          /\ UNCHANGED <<live, heap, ret, absMap>>
    /\ UNCHANGED <<size, htSize, mask, htState, mapLen, unmapLen,
                   op, fault, prevErased>>

\* Entry* newEntry = new Entry();  (value-initialised, or std::bad_alloc)
InsertNew ==
    /\ pc = "insert_new"
    /\ \/ \E a \in NewChoices :
             /\ live' = live \cup {a}
             /\ heap' = [heap EXCEPT ![a] = Entry(0, 0, Null)]
             /\ frame' = [frame EXCEPT !.newEntry = a]
             /\ pc' = "insert_key"
             /\ UNCHANGED <<ret, exc, absMap, pre>>
       \/ /\ pc' = "returned"
          /\ exc' = BadAlloc
          /\ frame' = EmptyFrame
          /\ pre' = NoTable
          /\ UNCHANGED <<live, heap, ret, absMap>>
    /\ UNCHANGED <<size, htSize, mask, ht, htState, mapLen, unmapLen,
                   op, fault, prevErased>>

\* newEntry->key = key;
InsertSetKey ==
    /\ pc = "insert_key"
    /\ heap' = [heap EXCEPT ![frame.newEntry].key = op.key]
    /\ pc' = "insert_value"
    /\ UNCHANGED <<size, htSize, mask, ht, htState, mapLen, unmapLen, live,
                   frame, op, ret, exc, fault, histVars>>

\* newEntry->value = value;
InsertSetValue ==
    /\ pc = "insert_value"
    /\ heap' = [heap EXCEPT ![frame.newEntry].value = op.value]
    /\ pc' = "insert_next"
    /\ UNCHANGED <<size, htSize, mask, ht, htState, mapLen, unmapLen, live,
                   frame, op, ret, exc, fault, histVars>>

\* (variant: next is left as new Entry() made it)
InsertSetNextSkipped ==
    /\ pc = "insert_next"
    /\ pc' = "insert_publish"
    /\ UNCHANGED <<tableVars, frame, op, ret, exc, fault, histVars>>

\* (variant: next is set to the new entry itself)
InsertSetNextSelf ==
    /\ pc = "insert_next"
    /\ heap' = [heap EXCEPT ![frame.newEntry].next = frame.newEntry]
    /\ pc' = "insert_publish"
    /\ UNCHANGED <<size, htSize, mask, ht, htState, mapLen, unmapLen, live,
                   frame, op, ret, exc, fault, histVars>>

\* newEntry->next = ht[pos];
InsertSetNext ==
    /\ pc = "insert_next"
    /\ heap' = [heap EXCEPT ![frame.newEntry].next = ht[frame.pos]]
    /\ pc' = "insert_publish"
    /\ UNCHANGED <<size, htSize, mask, ht, htState, mapLen, unmapLen, live,
                   frame, op, ret, exc, fault, histVars>>

\* (variant: the new entry is stored one bucket further)
InsertPublishElsewhere ==
    /\ pc = "insert_publish"
    /\ ht' = [ht EXCEPT ![(frame.pos + 1) % htSize] = frame.newEntry]
    /\ Return(TRUE)
    /\ UNCHANGED <<size, htSize, mask, htState, mapLen, unmapLen, heap, live,
                   op, fault, prevErased>>

\* ht[pos] = newEntry; return true;
InsertPublish ==
    /\ pc = "insert_publish"
    /\ ht' = [ht EXCEPT ![frame.pos] = frame.newEntry]
    /\ Return(TRUE)
    /\ UNCHANGED <<size, htSize, mask, htState, mapLen, unmapLen, heap, live,
                   op, fault, prevErased>>

\* ---- erase ----------------------------------------------------------------
\* pos = hashKey(key) & mask; if (!ht[pos]) return false;
\* if (ht[pos]->key == key) ... else search
EraseBegin(k) ==
    /\ Enter("erase", k, 0)
    /\ IF htState # "mapped"
          THEN Halt("bad_bucket_array") /\ UNCHANGED pre
          ELSE LET p == Index(k, mask)
               IN IF ht[p] = Null
                     THEN Return(FALSE) /\ UNCHANGED <<tableVars, fault>>
                  ELSE IF ht[p] \notin live
                     THEN Halt("use_after_free") /\ UNCHANGED pre
                  ELSE /\ Proceed
                       /\ pc' = IF heap[ht[p]].key = k THEN "erase_head_save"
                                                       ELSE "erase_search"
                       /\ frame' = [EmptyFrame EXCEPT !.pos = p]
                       /\ UNCHANGED <<tableVars, fault, absMap>>

\* auto* next = ht[pos]->next;
EraseHeadSave ==
    /\ pc = "erase_head_save"
    /\ IF ht[frame.pos] \notin live
          THEN HaltInCall("use_after_free")
          ELSE /\ frame' = [frame EXCEPT !.next = heap[ht[frame.pos]].next]
               /\ pc' = "erase_head_delete"
               /\ UNCHANGED <<tableVars, op, ret, exc, fault, histVars>>

\* delete ht[pos];
EraseHeadDelete ==
    /\ pc = "erase_head_delete"
    /\ IF ht[frame.pos] \notin live
          THEN HaltInCall("double_free")
          ELSE /\ live' = live \ {ht[frame.pos]}
               /\ heap' = [heap EXCEPT ![ht[frame.pos]] = Released]
               /\ pc' = "erase_head_relink"
               /\ UNCHANGED <<size, htSize, mask, ht, htState, mapLen,
                              unmapLen, frame, op, ret, exc, fault, histVars>>

\* (variant: the bucket keeps pointing at the deleted head)
EraseHeadNoRelink ==
    /\ pc = "erase_head_relink"
    /\ Return(TRUE)
    /\ UNCHANGED <<tableVars, op, fault, prevErased>>

\* ht[pos] = next; return true;
EraseHeadRelink ==
    /\ pc = "erase_head_relink"
    /\ ht' = [ht EXCEPT ![frame.pos] = frame.next]
    /\ Return(TRUE)
    /\ UNCHANGED <<size, htSize, mask, htState, mapLen, unmapLen, heap, live,
                   op, fault, prevErased>>

\* (variant: the loop advances lead but leaves prev at the head)
RECURSIVE SearchStalePrev(_, _, _, _, _)
SearchStalePrev(t, p, l, key, fuel) ==
    IF l = Null THEN [status |-> "ok", prev |-> p, lead |-> Null]
    ELSE IF l \notin t.live
       THEN [status |-> "use_after_free", prev |-> p, lead |-> l]
    ELSE IF t.heap[l].key = key THEN [status |-> "ok", prev |-> p, lead |-> l]
    ELSE IF fuel = 0 THEN [status |-> "endless_loop", prev |-> p, lead |-> l]
    ELSE SearchStalePrev(t, p, t.heap[l].next, key, fuel - 1)

\* while (lead && lead->key != key) { prev = lead; lead = lead->next; }
RECURSIVE Search(_, _, _, _, _)
Search(t, p, l, key, fuel) ==
    IF l = Null THEN [status |-> "ok", prev |-> p, lead |-> Null]
    ELSE IF l \notin t.live
       THEN [status |-> "use_after_free", prev |-> p, lead |-> l]
    ELSE IF t.heap[l].key = key THEN [status |-> "ok", prev |-> p, lead |-> l]
    ELSE IF fuel = 0 THEN [status |-> "endless_loop", prev |-> p, lead |-> l]
    ELSE Search(t, l, t.heap[l].next, key, fuel - 1)

\* (variant: a search that finds nothing cuts the chain behind its head)
EraseSearchCuts ==
    /\ pc = "erase_search"
    /\ ht[frame.pos] \in live
    /\ LET w == Search(Table, ht[frame.pos], heap[ht[frame.pos]].next,
                       op.key, Cardinality(Nodes))
       IN /\ w.status = "ok"
          /\ IF w.lead = Null
                THEN /\ heap' = [heap EXCEPT ![ht[frame.pos]].next = Null]
                     /\ Return(FALSE)
                     /\ UNCHANGED <<size, htSize, mask, ht, htState, mapLen,
                                    unmapLen, live, op, fault, prevErased>>
                ELSE /\ frame' = [frame EXCEPT !.prev = w.prev, !.lead = w.lead]
                     /\ pc' = "erase_relink"
                     /\ UNCHANGED <<tableVars, op, ret, exc, fault, histVars>>

\* auto* prev = ht[pos], *lead = ht[pos]->next; the loop;
\* if (!lead) return false;
EraseSearch ==
    /\ pc = "erase_search"
    /\ IF ht[frame.pos] \notin live
          THEN HaltInCall("use_after_free")
          ELSE LET w == Search(Table, ht[frame.pos], heap[ht[frame.pos]].next,
                               op.key, Cardinality(Nodes))
               IN IF w.status # "ok" THEN HaltInCall(w.status)
                  ELSE IF w.lead = Null
                     THEN /\ Return(FALSE)
                          /\ UNCHANGED <<tableVars, op, fault, prevErased>>
                  ELSE /\ frame' = [frame EXCEPT !.prev = w.prev, !.lead = w.lead]
                       /\ pc' = "erase_relink"
                       /\ UNCHANGED <<tableVars, op, ret, exc, fault, histVars>>

\* (variant: the predecessor is not repointed)
EraseRelinkSkip ==
    /\ pc = "erase_relink"
    /\ pc' = "erase_delete"
    /\ UNCHANGED <<tableVars, frame, op, ret, exc, fault, histVars>>

\* prev->next = lead->next;
EraseRelink ==
    /\ pc = "erase_relink"
    /\ IF frame.lead \notin live \/ frame.prev \notin live
          THEN HaltInCall("use_after_free")
          ELSE /\ heap' = [heap EXCEPT ![frame.prev].next = heap[frame.lead].next]
               /\ pc' = "erase_delete"
               /\ UNCHANGED <<size, htSize, mask, ht, htState, mapLen,
                              unmapLen, live, frame, op, ret, exc, fault, histVars>>

\* (variant: the result is false)
EraseDeleteFalse ==
    /\ pc = "erase_delete"
    /\ live' = live \ {frame.lead}
    /\ heap' = [heap EXCEPT ![frame.lead] = Released]
    /\ Return(FALSE)
    /\ UNCHANGED <<size, htSize, mask, ht, htState, mapLen, unmapLen,
                   op, fault, prevErased>>

\* delete lead; return true;
EraseDelete ==
    /\ pc = "erase_delete"
    /\ IF frame.lead \notin live
          THEN HaltInCall("double_free")
          ELSE /\ live' = live \ {frame.lead}
               /\ heap' = [heap EXCEPT ![frame.lead] = Released]
               /\ Return(TRUE)
               /\ UNCHANGED <<size, htSize, mask, ht, htState, mapLen,
                              unmapLen, op, fault, prevErased>>

\* ---- destructor -----------------------------------------------------------
\* for (auto pos = 0ul; ...
DestroyBegin ==
    /\ Enter("destroy", 0, 0)
    /\ Proceed
    /\ pc' = "dtor_bucket"
    /\ frame' = EmptyFrame
    /\ UNCHANGED <<tableVars, fault, absMap>>

\* pos < htSize ? entry = ht[pos] : leave the loop
DtorBucket ==
    /\ pc = "dtor_bucket"
    /\ IF frame.pos >= htSize
          THEN /\ pc' = "dtor_unmap"
               /\ UNCHANGED <<tableVars, frame, op, ret, exc, fault, histVars>>
       ELSE IF htState # "mapped"
          THEN HaltInCall("bad_bucket_array")
       ELSE /\ frame' = [frame EXCEPT !.entry = ht[frame.pos]]
            /\ pc' = "dtor_entry"
            /\ UNCHANGED <<tableVars, op, ret, exc, fault, histVars>>

\* (variant: only the head of each chain is deleted)
DtorEntryOnlyFirst ==
    /\ pc = "dtor_entry"
    /\ frame.entry # Null
    /\ live' = live \ {frame.entry}
    /\ heap' = [heap EXCEPT ![frame.entry] = Released]
    /\ frame' = [frame EXCEPT !.entry = Null]
    /\ UNCHANGED <<pc, size, htSize, mask, ht, htState, mapLen,
                   unmapLen, op, ret, exc, fault, histVars>>

\* auto* next = entry->next; delete entry; entry = next;
DtorEntry ==
    /\ pc = "dtor_entry"
    /\ frame.entry # Null
    /\ IF frame.entry \notin live
          THEN HaltInCall("use_after_free")
          ELSE /\ live' = live \ {frame.entry}
               /\ heap' = [heap EXCEPT ![frame.entry] = Released]
               /\ frame' = [frame EXCEPT !.next = heap[frame.entry].next,
                                         !.entry = heap[frame.entry].next]
               /\ UNCHANGED <<pc, size, htSize, mask, ht, htState, mapLen,
                              unmapLen, op, ret, exc, fault, histVars>>

\* entry is null: ++pos
DtorNextBucket ==
    /\ pc = "dtor_entry"
    /\ frame.entry = Null
    /\ frame' = [frame EXCEPT !.pos = frame.pos + 1]
    /\ pc' = "dtor_bucket"
    /\ UNCHANGED <<tableVars, op, ret, exc, fault, histVars>>

\* munmap(ht, htSize);
DtorUnmap ==
    /\ pc = "dtor_unmap"
    /\ unmapLen' = htSize
    /\ htState' = "unmapped"
    /\ pc' = "destroyed"
    /\ frame' = EmptyFrame
    /\ pre' = NoTable
    /\ UNCHANGED <<size, htSize, mask, ht, mapLen, heap, live,
                   op, ret, exc, fault, absMap, prevErased>>

\* ---- the constructor on full 64-bit words ---------------------------------
Zero64 == ToU64(0)

One64 == ToU64(1)

\* the word with only bit j set
Bit64(j) ==
    [b \in 1..WordBytes |-> IF b = (j \div 8) + 1 THEN Pow2(j % 8) ELSE 0]

RECURSIVE SubFrom(_, _, _, _)
SubFrom(a, b, j, borrow) ==
    IF j > WordBytes THEN <<>>
    ELSE LET t == a[j] - b[j] - borrow
         IN <<(t + ByteBase) % ByteBase>>
               \o SubFrom(a, b, j + 1, IF t < 0 THEN 1 ELSE 0)

\* a - b modulo 2^64
Sub64(a, b) == SubFrom(a, b, 1, 0)

RECURSIVE LessFrom(_, _, _)
LessFrom(a, b, j) ==
    IF j = 0 THEN FALSE
    ELSE IF a[j] # b[j] THEN a[j] < b[j]
    ELSE LessFrom(a, b, j - 1)

\* a < b, unsigned
Less64(a, b) == LessFrom(a, b, WordBytes)

RECURSIVE BitLenFrom(_, _)
BitLenFrom(a, j) ==
    IF j = 0 THEN 0
    ELSE IF a[j] # 0 THEN 8 * (j - 1) + BitLen(a[j])
    ELSE BitLenFrom(a, j - 1)

\* __builtin_clzl of a nonzero 64-bit word
clzlWide(a) == WordBits - BitLenFrom(a, WordBytes)

\* 1ull << c.  A count of 64 is undefined: the shift instruction of x86-64
\* takes the count modulo 64, other targets and constant folding shift the
\* bit out
ShiftLeftOne(c) ==
    IF c < WordBits THEN {Bit64(c)} ELSE {Bit64(c % WordBits), Zero64}

\* sizes around every power of two: 2^j, 2^j + 1, 2^j - 1 and 2^64 - 1
WideSizes ==
    {Bit64(j) : j \in 0..(WordBits - 1)}
      \cup {[Bit64(j) EXCEPT ![1] = @ + 1] : j \in 1..(WordBits - 1)}
      \cup {Sub64(Bit64(j), One64) : j \in 2..(WordBits - 1)}
      \cup {Sub64(Zero64, One64)}

NoWide ==
    [pc |-> "none", size |-> Zero64, htSize |-> Zero64, mask |-> Zero64,
     mapLen |-> Zero64, htState |-> "none", key |-> 0, pos |-> Zero64]

\* mmap refuses a length of 0 and may refuse any other
MmapOutcomes(len) ==
    IF len = Zero64 THEN {"MAP_FAILED"} ELSE {"mapped", "MAP_FAILED"}

\* Hashtable(size): htSize, mask and the length asked of allocZeros
WideConstruct ==
    /\ wide.pc = "start"
    /\ \E h \in ShiftLeftOne(WordBits - clzlWide(wide.size)) :
          \E st \in MmapOutcomes(Mul64(ToU64(WordBytes), h)) :
             wide' = [wide EXCEPT !.pc = "constructed",
                                  !.htSize = h,
                                  !.mask = Sub64(h, One64),
                                  !.mapLen = Mul64(ToU64(WordBytes), h),
                                  !.htState = st]
    /\ UNCHANGED <<tableVars, callVars, histVars, mainVars, hashFn>>

\* hashKey(key) & mask, as lookup, insert and erase compute it
WideIndex ==
    /\ wide.pc \in {"constructed", "indexed"}
    /\ \E k \in Keys :
          wide' = [wide EXCEPT !.pc = "indexed",
                               !.key = k,
                               !.pos = And64(HashOf[k], wide.mask)]
    /\ UNCHANGED <<tableVars, callVars, histVars, mainVars, hashFn>>

\* ---- a client that makes any sequence of calls ----------------------------
Sizes == 1..MaxSize

\* the value an insert of key k carries: main's 42, or the key itself
ValuesFor(k) == {InsertValue, k}

\* a heap of n node-sized pieces of storage, none handed out
FreshHeap(n) == [a \in 1..n |-> Released]

InitTable(n) ==
    /\ pc = "start"
    /\ size = 0 /\ htSize = 0 /\ mask = 0
    /\ ht = <<>>
    /\ htState = "none"
    /\ mapLen = 0 /\ unmapLen = 0
    /\ heap = FreshHeap(n)
    /\ live = {}
    /\ frame = EmptyFrame
    /\ op = NoOp
    /\ ret = FALSE
    /\ exc = "none"
    /\ fault = "none"
    /\ absMap = [k \in AllKeys |-> Absent]
    /\ pre = NoTable
    /\ prevErased = {}

Init ==
    /\ InitTable(MaxNodes)
    /\ phase = 0 /\ i = 0
    /\ hashFn = "hashKey"
    /\ wide = NoWide

AnyConstruct == (\E s \in Sizes : Construct(s)) /\ UNCHANGED <<mainVars, envVars>>
AnyLookup == (\E k \in Keys : Lookup(k)) /\ UNCHANGED <<mainVars, envVars>>
AnyInsert ==
    (\E k \in Keys : \E v \in ValuesFor(k) : InsertBegin(k, v))
    /\ UNCHANGED <<mainVars, envVars>>
AnyErase == (\E k \in Keys : EraseBegin(k)) /\ UNCHANGED <<mainVars, envVars>>
AnyDestroy == DestroyBegin /\ UNCHANGED <<mainVars, envVars>>
AnyLeave == Leave /\ UNCHANGED <<mainVars, envVars>>

\* the client's calls, and the statements inside them
Next ==
    \/ AnyConstruct \/ AnyLookup \/ AnyInsert \/ AnyErase \/ AnyDestroy
    \/ AnyLeave
    \/ InsertUpdate /\ UNCHANGED <<mainVars, envVars>>
    \/ InsertNew /\ UNCHANGED <<mainVars, envVars>>
    \/ InsertSetKey /\ UNCHANGED <<mainVars, envVars>>
    \/ InsertSetValue /\ UNCHANGED <<mainVars, envVars>>
    \/ InsertSetNext /\ UNCHANGED <<mainVars, envVars>>
    \/ InsertPublish /\ UNCHANGED <<mainVars, envVars>>
    \/ EraseHeadSave /\ UNCHANGED <<mainVars, envVars>>
    \/ EraseHeadDelete /\ UNCHANGED <<mainVars, envVars>>
    \/ EraseHeadRelink /\ UNCHANGED <<mainVars, envVars>>
    \/ EraseSearch /\ UNCHANGED <<mainVars, envVars>>
    \/ EraseRelink /\ UNCHANGED <<mainVars, envVars>>
    \/ EraseDelete /\ UNCHANGED <<mainVars, envVars>>
    \/ DtorBucket /\ UNCHANGED <<mainVars, envVars>>
    \/ DtorEntry /\ UNCHANGED <<mainVars, envVars>>
    \/ DtorNextBucket /\ UNCHANGED <<mainVars, envVars>>
    \/ DtorUnmap /\ UNCHANGED <<mainVars, envVars>>

Spec == Init /\ [][Next]_vars

\* ---- main: the acceptance run on its first size ---------------------------
\* Ensure (debug.hpp) stops the program when its condition is false
Ensure(cond) == IF cond THEN "continue" ELSE "abort"

\* the loop bound and stride of each of main's eight loops
LoopBound(p) == IF p <= 3 THEN size ELSE size \div 2

LoopStride(p) == IF p \in {4, 5} THEN EraseStride ELSE 1

\* the condition main puts under Ensure after the call of loop p at index j
Expected(p, j) ==
    CASE p = 1 -> ret = TRUE
      [] p = 2 -> ret = FALSE
      [] p = 3 -> ret # Null /\ heap[ret].value = j
      [] p = 4 -> ret = TRUE
      [] p = 5 -> ret = FALSE
      [] p = 6 -> IF j % EraseStride = 0 THEN ret = Null
                  ELSE ret # Null /\ heap[ret].value = j
      [] p = 7 -> IF j % EraseStride = 0 THEN ret = FALSE ELSE ret = TRUE
      [] p = 8 -> ret = Null

InitMain ==
    /\ InitTable(MainSize)
    /\ phase = 0 /\ i = 0
    /\ hashFn = "hashKey"
    /\ wide = NoWide

\* Hashtable h(size);
MainConstruct ==
    /\ Construct(MainSize)
    /\ phase' = 1 /\ i' = 0
    /\ UNCHANGED envVars

InLoop(ps) ==
    /\ pc = "idle"
    /\ phase \in ps /\ i < LoopBound(phase)
    /\ UNCHANGED <<phase, i, envVars>>

\* h.insert(i, 42)
MainInsert == InLoop({1}) /\ InsertBegin(i, InsertValue)

\* h.insert(i, i)
MainUpdate == InLoop({2}) /\ InsertBegin(i, i)

\* h.lookup(i)
MainLookup == InLoop({3, 6, 8}) /\ Lookup(i)

\* h.erase(i)
MainErase == InLoop({4, 5, 7}) /\ EraseBegin(i)

\* the call is back: Ensure(...), then the loop's increment; an exception
\* out of insert leaves main
MainCheck ==
    /\ pc = "returned"
    /\ IF exc = BadAlloc
          THEN /\ pc' = "terminated"
               /\ UNCHANGED <<tableVars, frame, op, ret, exc, fault,
                              histVars, mainVars>>
       ELSE IF Ensure(Expected(phase, i)) = "abort"
          THEN /\ pc' = "aborted"
               /\ UNCHANGED <<tableVars, frame, op, ret, exc, fault,
                              histVars, mainVars>>
       ELSE /\ Leave
            /\ i' = i + LoopStride(phase)
            /\ UNCHANGED phase
    /\ UNCHANGED envVars

\* a loop is over: the next one starts at 0
MainLoopEnd ==
    /\ pc = "idle"
    /\ phase \in 1..8 /\ i >= LoopBound(phase)
    /\ phase' = phase + 1
    /\ i' = 0
    /\ UNCHANGED <<tableVars, callVars, histVars, envVars>>

\* h goes out of scope
MainDestroy ==
    /\ phase = 9
    /\ DestroyBegin
    /\ UNCHANGED <<mainVars, envVars>>

NextMain ==
    \/ MainConstruct \/ MainInsert \/ MainUpdate \/ MainLookup \/ MainErase
    \/ MainCheck \/ MainLoopEnd \/ MainDestroy
    \/ InsertUpdate /\ UNCHANGED <<mainVars, envVars>>
    \/ InsertNew /\ UNCHANGED <<mainVars, envVars>>
    \/ InsertSetKey /\ UNCHANGED <<mainVars, envVars>>
    \/ InsertSetValue /\ UNCHANGED <<mainVars, envVars>>
    \/ InsertSetNext /\ UNCHANGED <<mainVars, envVars>>
    \/ InsertPublish /\ UNCHANGED <<mainVars, envVars>>
    \/ EraseHeadSave /\ UNCHANGED <<mainVars, envVars>>
    \/ EraseHeadDelete /\ UNCHANGED <<mainVars, envVars>>
    \/ EraseHeadRelink /\ UNCHANGED <<mainVars, envVars>>
    \/ EraseSearch /\ UNCHANGED <<mainVars, envVars>>
    \/ EraseRelink /\ UNCHANGED <<mainVars, envVars>>
    \/ EraseDelete /\ UNCHANGED <<mainVars, envVars>>
    \/ DtorBucket /\ UNCHANGED <<mainVars, envVars>>
    \/ DtorEntry /\ UNCHANGED <<mainVars, envVars>>
    \/ DtorNextBucket /\ UNCHANGED <<mainVars, envVars>>
    \/ DtorUnmap /\ UNCHANGED <<mainVars, envVars>>

SpecMain == InitMain /\ [][NextMain]_vars

\* ---- the constructor's arithmetic as a run of its own --------------------
InitWide ==
    /\ InitTable(MaxNodes)
    /\ phase = 0 /\ i = 0
    /\ hashFn = "hashKey"
    /\ \E s \in WideSizes : wide = [NoWide EXCEPT !.pc = "start", !.size = s]

NextWide == WideConstruct \/ WideIndex

SpecWide == InitWide /\ [][NextWide]_vars

\* ---- the table under each of the hash functions ---------------------------
InitHash ==
    /\ InitTable(MaxNodes)
    /\ phase = 0 /\ i = 0
    /\ hashFn \in HashNames
    /\ wide = NoWide

SpecHash == InitHash /\ [][Next]_vars

\* ==== properties ============================================================
\* what lookup(k) would tell a caller of table t
Damaged == [found |-> TRUE, value |-> 0 - 1]

View(t, k) ==
    LET w == lookup(t, k)
    IN IF w.status # "ok" THEN Damaged
       ELSE IF w.node = Null THEN Absent
       ELSE Present(t.heap[w.node].value)

\* the nodes of a chain from e on, up to and including the first released one
RECURSIVE ChainFrom(_, _, _)
ChainFrom(t, e, fuel) ==
    IF e = Null \/ fuel = 0 THEN <<>>
    ELSE IF e \notin t.live THEN <<e>>
    ELSE <<e>> \o ChainFrom(t, t.heap[e].next, fuel - 1)

Chain(t, b) == ChainFrom(t, t.ht[b], Cardinality(DOMAIN t.heap) + 1)

\* the places <<bucket, position>> of the table that hold an entry for key k
PlacesOf(t, k) ==
    {bj \in UNION {{<<b, j>> : j \in DOMAIN Chain(t, b)} : b \in DOMAIN t.ht} :
        /\ Chain(t, bj[1])[bj[2]] \in t.live
        /\ t.heap[Chain(t, bj[1])[bj[2]]].key = k}

\* the table as it was when the call now returning began
Before == IF pc = "idle" THEN Table ELSE pre

\* this step is the return of a call of the member function name
Returns(name) == pc # "returned" /\ pc' = "returned" /\ exc' = "none"
                 /\ op'.name = name

AtRest == pc \in {"idle", "returned"} /\ htState = "mapped"

\* C1: between calls, lookup(k) tells for every key what the abstract
\* key -> value map driven by the same inserts and erases holds: the value of
\* the latest insert if k was inserted and not erased since, absent otherwise
\* (so absent for every key never inserted).
C1_LookupRefinesMap ==
    AtRest => \A k \in AllKeys : View(Table, k) = absMap[k]

\* a lookup has returned the entry of a key holding the value of its latest
\* insert, right after another key was erased
C1_Witness ==
    /\ pc = "returned" /\ op.name = "lookup" /\ ret # Null
    /\ absMap[op.key] = Present(op.key)
    /\ prevErased # {} /\ prevErased # {op.key}

\* C2: insert(k, v) returns true iff k was absent when it was called; either
\* way lookup(k) then gives v, and after an update exactly one entry holds k.
C2_InsertResult ==
    [][Returns("insert") =>
         /\ ret' = (View(Before, op'.key) = Absent)
         /\ View(Table', op'.key) = Present(op'.value)
         /\ (ret' = FALSE => Cardinality(PlacesOf(Table', op'.key)) = 1)]_vars

\* an insert has updated a key in a chain of three
C2_Witness ==
    /\ pc = "returned" /\ op.name = "insert" /\ exc = "none" /\ ret = FALSE
    /\ View(Table, op.key) = Present(op.value)
    /\ \E b \in DOMAIN ht : Len(Chain(Table, b)) = 3

\* C3: erase(k) returns true iff k was present when it was called; after true
\* lookup(k) is absent; an erase(k) right after a successful erase(k)
\* returns false.
C3_EraseResult ==
    [][Returns("erase") =>
         /\ ret' = (View(Before, op'.key) # Absent)
         /\ (ret' = TRUE => View(Table', op'.key) = Absent)
         /\ (prevErased = {op'.key} => ret' = FALSE)]_vars

\* the second of two erases of one key has returned false, from a bucket
\* that still holds other keys
C3_Witness ==
    /\ pc = "returned" /\ op.name = "erase" /\ ret = FALSE
    /\ prevErased = {op.key}
    /\ ht[Index(op.key, mask)] # Null

\* C4: erase(k) leaves lookup(k') as it was (presence and value) for every
\* key k' other than k, in the bucket of k or in another one.
C4_EraseFrame ==
    [][Returns("erase") =>
         \A k \in AllKeys \ {op'.key} : View(Table', k) = View(Before, k)]_vars

\* an erase has removed a key while a key of the same bucket and a key of
\* another bucket are in the table
C4_Witness ==
    /\ pc = "returned" /\ op.name = "erase" /\ ret = TRUE
    /\ \E k1, k2 \in Keys \ {op.key} :
          /\ Index(k1, mask) = Index(op.key, mask)
          /\ Index(k2, mask) # Index(op.key, mask)
          /\ View(Table, k1) # Absent /\ View(Table, k2) # Absent

\* the nodes the bucket array leads to
LinkedNodes(t) ==
    UNION {{Chain(t, b)[j] : j \in DOMAIN Chain(t, b)} : b \in DOMAIN t.ht}

InErase == htState = "mapped" /\ op.name = "erase"

IsPow2(n) == \E j \in 0..n : n = Pow2(j)

\* C6 as stated: the capacity is the smallest power of two >= the size asked
\* for, and mask = capacity - 1.
C6_SmallestPow2AtLeast ==
    pc # "start" =>
      /\ IsPow2(htSize) /\ htSize >= size
      /\ \A p \in 1..htSize : (IsPow2(p) /\ p >= size) => p = htSize
      /\ mask = htSize - 1

\* C6, amended: the capacity is the smallest power of two strictly greater
\* than the size asked for (sizes below 2^63), and mask = capacity - 1.
C6_SmallestPow2Above ==
    pc # "start" =>
      /\ IsPow2(htSize) /\ htSize > size
      /\ \A p \in 1..htSize : (IsPow2(p) /\ p > size) => p = htSize
      /\ mask = htSize - 1

\* a table was constructed with a size that is a power of two
C6_Witness == pc = "idle" /\ htState = "mapped" /\ size = 2 /\ htSize = 4

\* C7: no member function reads or deletes a node that was deleted, and when
\* the destructor is done every node that was allocated has been deleted
\* (by the erase that removed it, or by the destructor).
C7_ReleasedOnce ==
    /\ fault \notin {"use_after_free", "double_free"}
    /\ (pc = "destroyed" => live = {})
    /\ (AtRest => live = LinkedNodes(Table))

\* the destructor is done on a table that had a key erased and still held
\* another key
C7_Witness ==
    /\ pc = "destroyed" /\ prevErased # {}
    /\ \E k \in Keys : absMap[k] # Absent

\* C8 as stated: the destructor releases every linked entry and then the
\* bucket array in full: as many bytes as the constructor mapped.
C8_BucketArrayReleased ==
    pc = "destroyed" => (live = {} /\ unmapLen = mapLen)

\* C9 as stated: when the mapping of the bucket array fails no member
\* function ever uses the failed result as a bucket array.
C9_FailedAllocationUnused == fault # "bad_bucket_array"

\* the scenario of main with `erased` as the keys its erase loops remove
Scenario(erased) ==
    pc # "start" =>
      /\ htSize = 16 /\ mask = 15
      /\ (pc = "returned" /\ exc = "none") =>
           /\ phase = 1 =>
                op = [name |-> "insert", key |-> i, value |-> 42] /\ ret = TRUE
           /\ phase = 2 =>
                op = [name |-> "insert", key |-> i, value |-> i] /\ ret = FALSE
           /\ phase = 3 =>
                /\ op.name = "lookup" /\ op.key = i
                /\ ret # Null /\ heap[ret].value = i
           /\ phase = 4 =>
                /\ op.name = "erase" /\ op.key = i /\ i \in erased
                /\ ret = TRUE
           /\ phase = 5 =>
                /\ op.name = "erase" /\ op.key = i /\ i \in erased
                /\ ret = FALSE
           /\ phase = 6 =>
                /\ op.name = "lookup" /\ op.key = i
                /\ IF i \in erased THEN ret = Null
                   ELSE ret # Null /\ heap[ret].value = i
      /\ (pc = "idle" /\ phase \in {5, 6}) =>
           \A k \in MainKeys :
              View(Table, k) = IF k \in erased THEN Absent ELSE Present(k)

\* C10 as stated: with size 10 the capacity is 16 and the mask 15;
\* insert(i, 42) for i in 0..9 returns true; insert(i, i) returns false and
\* lookup(i) then has value i; erase of 0, 3, 6, 9 returns true, their second
\* erase false; then 0, 3, 6, 9 are absent and the other keys keep their
\* values.
C10_Scenario == Scenario({0, 3, 6, 9})

\* C10: as above, but the keys erased are 0 and 3 (every third key below
\* size/2 = 5); after their second erase 0 and 3 are absent and every other
\* key of 0..9 keeps its value.
C10_ScenarioAsRun == Scenario({0, 3})

\* the last lookup after the two erase loops has returned
C10_Witness ==
    /\ pc = "returned" /\ exc = "none"
    /\ phase = 6 /\ i = 4 /\ ret # Null
    /\ absMap[3] = Absent /\ absMap[9] = Present(9)

\* C12: every entry reachable from ht[b] has hashKey(key) & mask = b, in
\* every state of a mapped table, and the constructor leaves every bucket
\* null.
C12_ChainLocality ==
    /\ [](htState = "mapped" =>
            \A b \in DOMAIN ht :
               \A j \in DOMAIN Chain(Table, b) :
                  Chain(Table, b)[j] \in live =>
                     Index(heap[Chain(Table, b)[j]].key, mask) = b)
    /\ [][(pc = "start" /\ htState' = "mapped") =>
            /\ DOMAIN ht' = 0..(htSize' - 1)
            /\ \A b \in DOMAIN ht' : ht'[b] = Null]_vars

\* two buckets hold entries, one of them a chain of two
C12_Witness ==
    /\ AtRest
    /\ \E b1, b2 \in DOMAIN ht :
          /\ b1 # b2
          /\ Len(Chain(Table, b1)) >= 2 /\ Len(Chain(Table, b2)) >= 1

\* C13: between calls the linked entries have pairwise distinct keys, and
\* their keys are exactly the keys inserted and not erased since.
C13_OneEntryPerKey ==
    AtRest =>
      /\ \A n1, n2 \in LinkedNodes(Table) :
            heap[n1].key = heap[n2].key => n1 = n2
      /\ {heap[n].key : n \in LinkedNodes(Table)}
            = {k \in AllKeys : absMap[k].found}

\* an insert has updated a key that sits behind another key in its chain
C13_Witness ==
    /\ pc = "returned" /\ op.name = "insert" /\ exc = "none" /\ ret = FALSE
    /\ ht[Index(op.key, mask)] # Null
    /\ heap[ht[Index(op.key, mask)]].key # op.key
    /\ Cardinality(LinkedNodes(Table)) >= 2

InInsertNew ==
    pc \in {"insert_new", "insert_key", "insert_value", "insert_next",
            "insert_publish"}

\* C14: on the new-key path the bucket array is untouched and the new entry
\* unreachable until key, value and next (= the head of its bucket) are
\* written; the publishing store then makes it the head of bucket
\* hashKey(key) & mask with the previous head as its next.  No bucket head's
\* next is ever the head itself.
C14_PublishLast ==
    /\ [](htState = "mapped" =>
            /\ \A b \in DOMAIN ht :
                  (ht[b] # Null /\ ht[b] \in live) => heap[ht[b]].next # ht[b]
            /\ InInsertNew =>
                  /\ ht = pre.ht
                  /\ frame.newEntry \notin LinkedNodes(Table)
            /\ pc = "insert_publish" =>
                  heap[frame.newEntry] = Entry(op.key, op.value, ht[frame.pos]))
    /\ [][(Returns("insert") /\ ret' = TRUE) =>
            LET b == Index(op'.key, mask)
            IN /\ ht'[b] \notin Before.live
               /\ heap'[ht'[b]] = Entry(op'.key, op'.value, Before.ht[b])
               /\ \A c \in DOMAIN ht \ {b} : ht'[c] = Before.ht[c]]_vars

\* a fully written entry is about to become the head of a bucket that
\* already has one
C14_Witness ==
    /\ pc = "insert_publish"
    /\ ht[frame.pos] # Null
    /\ heap[frame.newEntry].next = ht[frame.pos]

\* C15: insert allocates one node when the key is new and none when it
\* exists; an update changes the value of the matched entry and nothing else
\* (bucket heads, keys, next links and every other value stay).
C15_InsertFrame ==
    [][Returns("insert") =>
         IF ret'
            THEN /\ Before.live \subseteq live'
                 /\ Cardinality(live' \ Before.live) = 1
            ELSE /\ live' = Before.live
                 /\ ht' = Before.ht
                 /\ \E n \in LinkedNodes(Before) :
                       /\ Before.heap[n].key = op'.key
                       /\ heap' = [Before.heap EXCEPT ![n].value = op'.value]]_vars

\* an update has returned for the middle entry of a chain of three
C15_Witness ==
    /\ pc = "returned" /\ op.name = "insert" /\ exc = "none" /\ ret = FALSE
    /\ \E b \in DOMAIN ht :
          /\ Len(Chain(Table, b)) = 3
          /\ heap[Chain(Table, b)[2]].key = op.key

\* C16: lookup changes neither the bucket array nor any entry nor the set of
\* allocated nodes, whether the key is present or absent.
C16_LookupReadOnly ==
    [][Returns("lookup") =>
         /\ ht' = ht /\ heap' = heap /\ live' = live
         /\ <<htSize', mask'>> = <<htSize, mask>>]_vars

\* a lookup has walked a non-empty chain to its end without a match
C16_Witness ==
    /\ pc = "returned" /\ op.name = "lookup" /\ ret = Null
    /\ Len(Chain(Table, Index(op.key, mask))) >= 2

\* C17: an erase that returns false (empty bucket, or a chain searched to its
\* end) leaves bucket heads, entries and allocations as they were.
C17_EraseMissNoEffect ==
    [][(Returns("erase") /\ ret' = FALSE) =>
         /\ ht' = Before.ht /\ heap' = Before.heap /\ live' = Before.live]_vars

\* an erase has returned false after searching a chain of two that never
\* held its key
C17_Witness ==
    /\ pc = "returned" /\ op.name = "erase" /\ ret = FALSE
    /\ prevErased = {}
    /\ Len(Chain(Table, Index(op.key, mask))) >= 2

\* C18: when new fails in insert the exception leaves the call and the table
\* is as it was at the call: bucket heads, entries and allocations.
C18_FailedInsertNoEffect ==
    [][(pc = "insert_new" /\ pc' # "insert_key") =>
         /\ pc' = "returned" /\ exc' = BadAlloc
         /\ ht' = pre.ht /\ heap' = pre.heap /\ live' = pre.live
         /\ \A k \in AllKeys : View(Table', k) = absMap[k]]_vars

\* an insert of a new key into a non-empty bucket has failed to allocate
C18_Witness ==
    /\ pc = "returned" /\ op.name = "insert" /\ exc = BadAlloc
    /\ ht[Index(op.key, mask)] # Null
    /\ absMap[op.key] = Absent

\* the destructor's remaining work
DtorMeasure ==
    2 * (htSize - frame.pos) + Cardinality(live)
      + (IF pc = "dtor_bucket" THEN 1 ELSE 0)

InDtorLoop == pc \in {"dtor_bucket", "dtor_entry"}

\* C19: every chain ends at null, no entry is linked twice (in one chain or
\* in two: the places of the chains hold as many nodes as there are places),
\* the walks of lookup and erase end, and every step of the destructor's
\* loops brings it closer to its end.
C19_ChainsAcyclic ==
    /\ [](/\ fault # "endless_loop"
          /\ htState = "mapped" =>
               LET ch == [b \in DOMAIN ht |-> Chain(Table, b)]
                   places == UNION {{<<b, j>> : j \in DOMAIN ch[b]} :
                                       b \in DOMAIN ht}
               IN /\ \A b \in DOMAIN ht : Len(ch[b]) <= Cardinality(Nodes)
                  /\ Cardinality({ch[p[1]][p[2]] : p \in places})
                        = Cardinality(places))
    /\ [][(InDtorLoop /\ InDtorLoop') =>
            (DtorMeasure' < DtorMeasure /\ DtorMeasure' >= 0)]_vars

\* the destructor is walking a chain of two or more
C19_Witness ==
    /\ pc = "dtor_entry" /\ frame.entry # Null
    /\ frame.entry \in live
    /\ heap[frame.entry].next # Null

IsPow2Wide(a) == \E j \in 0..(WordBits - 1) : a = Bit64(j)

\* C11 as stated: for every size s > 0 of 64 bits the capacity is a power of
\* two >= s, mask = capacity - 1, and hashKey(key) & mask is below the
\* capacity.
C11_CapacityInvariants ==
    wide.pc \in {"constructed", "indexed"} =>
      /\ IsPow2Wide(wide.htSize)
      /\ ~Less64(wide.htSize, wide.size)
      /\ wide.mask = Sub64(wide.htSize, One64)
      /\ (wide.pc = "indexed" => Less64(wide.pos, wide.htSize))

\* what the call op tells its caller when the abstract map is am
ResultOf(am, o) ==
    CASE o.name = "insert" -> [flag |-> ~am[o.key].found, value |-> 0]
      [] o.name = "erase" -> [flag |-> am[o.key].found, value |-> 0]
      [] o.name = "lookup" -> am[o.key]

\* what the call that returns in this step tells its caller
Observed ==
    IF op'.name = "lookup"
       THEN IF ret' = Null THEN Absent ELSE Present(heap'[ret'].value)
       ELSE [flag |-> ret', value |-> 0]

\* C20: under each hash function (hashKey, the identity, one digest for all
\* keys) and each capacity, every return value is the one the abstract map
\* of the calls made so far gives, and that map does not depend on hash
\* function or capacity: two tables given the same calls return the same
\* values.
C20_ResultsHashIndependent ==
    [][(pc # "returned" /\ pc' = "returned" /\ exc' = "none") =>
         /\ Observed = ResultOf(absMap, op')
         /\ absMap' = IF op'.name = "insert"
                         THEN [absMap EXCEPT ![op'.key] = Present(op'.value)]
                      ELSE IF op'.name = "erase"
                         THEN [absMap EXCEPT ![op'.key] = Absent]
                      ELSE absMap]_vars

\* with every key in one bucket of a table of capacity four, a lookup has
\* found the last entry of a chain of three
C20_Witness ==
    /\ hashFn = "one_bucket" /\ htSize = 4
    /\ pc = "returned" /\ op.name = "lookup" /\ ret # Null
    /\ \E b \in DOMAIN ht :
          Len(Chain(Table, b)) = 3 /\ Chain(Table, b)[3] = ret

====
